---- MODULE Spec2Model ----
(***************************************************************************)
(* Pipeline orchestration core of aiitem-rag-architect:                    *)
(*   PipelineManager  (registry, admission ceiling, eviction sweep)        *)
(*   PipelineInstance (run state machine: start / executeStep / cancel /   *)
(*                     rollback)                                           *)
(* The event loop is single threaded: every action below is one            *)
(* synchronous segment of the code, from the callback that enters it to    *)
(* the next `await` on something that is really pending (the dynamic       *)
(* import, the step executor).  Continuations of already settled promises  *)
(* run as microtasks of the same segment, so no request handler or timer   *)
(* can interleave with them.  Date.now() is modelled as a non-decreasing   *)
(* clock, read once per segment.                                           *)
(***************************************************************************)
EXTENDS Integers, Sequences, FiniteSets, TLC

VARIABLES pipelines, instances, pc, nextId, now, budget, lastCall, emitted,
          ghost, sseConnections, responses, closeTimers, nextRes,
          globalSteps

vars == <<pipelines, instances, pc, nextId, now, budget, lastCall, emitted,
          ghost, sseConnections, responses, closeTimers, nextRes,
          globalSteps>>

\* the state of the SSE broadcaster of the server
sseVars == <<sseConnections, responses, closeTimers, nextRes>>

(***************************************************************************)
(* Bounds of the environment (numbers of calls, clock ticks, timer         *)
(* firings the checker explores).                                          *)
(***************************************************************************)
MaxStarts == 4
MaxEvents == 2

RunStarts == 1
RunResolves == 5
RunCancels == 2
RunFails == 1
RunProgress == 1

ClockStarts == 1
ClockEvents == 3
ClockTicks == 2

SweepStarts == 1
SweepEvents == 1
SweepGets == 1

SseStarts == 1
SseEvents == 1
SseSubs == 2
SseDrops == 1
SseOps == 4

StepRuns == 3
StepEvents == 2

(***************************************************************************)
(* Program constants.                                                      *)
(***************************************************************************)
maxConcurrentPipelines == 3
NumSteps == 5
CleanupMaxAgeMs == 60 * 60 * 1000
CleanupIntervalMs == 15 * 60 * 1000

\* the sweeps after which a run that ended at the first instant is deleted
SweepSweeps == CleanupMaxAgeMs \div CleanupIntervalMs + 1

Null == 0
\* Date.now() when the process starts: some time after the epoch
T0 == Null + 1
NoError == <<>>

PipelineSteps ==
  <<[id |-> 1, name |-> "parsing"],
    [id |-> 2, name |-> "dependencies"],
    [id |-> 3, name |-> "enrichment"],
    [id |-> 4, name |-> "vectorization"],
    [id |-> 5, name |-> "indexing"]>>

StepNames == {PipelineSteps[k].name : k \in 1..NumSteps}

TerminalStatus == {"completed", "failed", "cancelled"}

(***************************************************************************)
(* Inputs: configs of start requests, results and error messages of the    *)
(* step executor, progress reports of the step executor.  A message is a   *)
(* sequence of tokens; concatenation of strings is concatenation of        *)
(* sequences.                                                              *)
(***************************************************************************)
Configs == {"cfgA"}
ExecutorResults == {"result"}
ErrorMessages == {<<"timeout">>}
ImportErrors == {<<"Cannot", "find", "module">>}
ProgressReports == {[percentage |-> 50, itemsProcessed |-> 1, totalItems |-> 2]}

Contains(msg, token) == \E n \in 1..Len(msg) : msg[n] = token

EmptyResults == [n \in {} |-> "result"]

(***************************************************************************)
(* PipelineInstance constructor.                                           *)
(***************************************************************************)
NewStep(k) ==
  [id |-> PipelineSteps[k].id, name |-> PipelineSteps[k].name,
   status |-> "pending", progress |-> 0, startedAt |-> Null,
   completedAt |-> Null, error |-> NoError, itemsProcessed |-> 0,
   totalItems |-> 0]

\* a constructor that marks the run running at once
NewPipelineInstance_running(id, config, t) ==
  [id |-> id, config |-> config, status |-> "running", currentStep |-> 0,
   createdAt |-> t, startedAt |-> t, completedAt |-> Null,
   error |-> NoError, results |-> EmptyResults,
   steps |-> [k \in 1..NumSteps |-> NewStep(k)], cancelled |-> FALSE]

NewPipelineInstance(id, config, t) ==
  [id |-> id, config |-> config, status |-> "idle", currentStep |-> 0,
   createdAt |-> t, startedAt |-> Null, completedAt |-> Null,
   error |-> NoError, results |-> EmptyResults,
   steps |-> [k \in 1..NumSteps |-> NewStep(k)], cancelled |-> FALSE]

NewGhost == [completedAtWrites |-> 0, cancelCalls |-> 0, rollbacks |-> 0,
             cancelledIn |-> 0]

(***************************************************************************)
(* An outcome of a synchronous segment of one run: the instance after it,  *)
(* where the run is suspended, the events it emitted, how many times it    *)
(* wrote completedAt and how many times it ran rollback.                   *)
(***************************************************************************)
Outcome(i, p, ev, w, rb) ==
  [inst |-> i, pc |-> p, events |-> ev, writes |-> w, rollbacks |-> rb]

Seq2(o1, o2) ==
  [o2 EXCEPT !.events = o1.events \o o2.events,
             !.writes = o1.writes + o2.writes,
             !.rollbacks = o1.rollbacks + o2.rollbacks]

\* a rollback that also marks the run failed
rollback_marksFailed(i) ==
  [i EXCEPT !.results = EmptyResults, !.status = "failed"]

(***************************************************************************)
(* PipelineInstance.rollback: the cleanup of artifacts is a stub, results  *)
(* is replaced by a fresh empty map.                                       *)
(***************************************************************************)
rollback(i) == [i EXCEPT !.results = EmptyResults]

\* executeStep that stamps the step with the start time of the run
executeStepEnter_runStart(i, k, t) ==
  [i EXCEPT !.currentStep = PipelineSteps[k].id,
            !.steps[k].status = "running",
            !.steps[k].startedAt = i.startedAt]

(***************************************************************************)
(* executeStep up to its first await.  The two awaits of executeStep (the  *)
(* dynamic import, then the executor's method) have no statement that      *)
(* changes the run between them: pc = "executing" stands for both.         *)
(***************************************************************************)
executeStepEnter(i, k, t) ==
  [i EXCEPT !.currentStep = PipelineSteps[k].id,
            !.steps[k].status = "running",
            !.steps[k].startedAt = t]

\* start() whose catch block throws the error on to its caller
startCatch_rethrows(i, msg, t) ==
  Outcome(rollback([i EXCEPT !.status = "failed", !.completedAt = t,
                             !.error = msg]),
          "rejected", <<[type |-> "failed", step |-> "", error |-> msg]>>,
          1, 1)

\* start() whose catch block forgets the rollback
startCatch_noRollback(i, msg, t) ==
  Outcome([i EXCEPT !.status = "failed", !.completedAt = t, !.error = msg],
          "done", <<[type |-> "failed", step |-> "", error |-> msg]>>, 1, 0)

(***************************************************************************)
(* catch block of start().                                                 *)
(***************************************************************************)
startCatch(i, msg, t) ==
  Outcome(rollback([i EXCEPT !.status = "failed", !.completedAt = t,
                             !.error = msg]),
          "done", <<[type |-> "failed", step |-> "", error |-> msg]>>, 1, 1)

\* start() whose loop never looks at the cancel flag
startLoop_ignoresCancel(i, k, t) ==
  IF k > NumSteps
  THEN Outcome([i EXCEPT !.status = "completed", !.completedAt = t], "done",
               <<[type |-> "completed", step |-> "", error |-> NoError]>>,
               1, 0)
  ELSE Outcome(executeStepEnter(i, k, t), "executing", <<>>, 0, 0)

\* start() whose loop runs rollback when it finds the cancel flag
startLoop_rollsBack(i, k, t) ==
  IF k > NumSteps
  THEN Outcome([i EXCEPT !.status = "completed", !.completedAt = t], "done",
               <<[type |-> "completed", step |-> "", error |-> NoError]>>,
               1, 0)
  ELSE IF i.cancelled
       THEN Outcome(rollback([i EXCEPT !.status = "cancelled"]), "done",
                    <<>>, 0, 1)
       ELSE Outcome(executeStepEnter(i, k, t), "executing", <<>>, 0, 0)

(***************************************************************************)
(* Head of the for-loop of start() for step k; k = NumSteps + 1 is the     *)
(* code after the loop.                                                    *)
(***************************************************************************)
startLoop(i, k, t) ==
  IF k > NumSteps
  THEN Outcome([i EXCEPT !.status = "completed", !.completedAt = t], "done",
               <<[type |-> "completed", step |-> "", error |-> NoError]>>,
               1, 0)
  ELSE IF i.cancelled
       THEN Outcome([i EXCEPT !.status = "cancelled"], "done", <<>>, 0, 0)
       ELSE Outcome(executeStepEnter(i, k, t), "executing", <<>>, 0, 0)

(***************************************************************************)
(* start() up to its first suspension.                                     *)
(***************************************************************************)
startEnter(i, t) ==
  startLoop([i EXCEPT !.status = "running", !.startedAt = t], 1, t)

\* executeStep that stores the result but never marks the step completed
stepSucceeded_notMarked(i, k, result, t) ==
  LET name == i.steps[k].name
      res == [n \in (DOMAIN i.results) \cup {name} |->
                IF n = name THEN result ELSE i.results[n]]
      j == [i EXCEPT !.results = res, !.steps[k].completedAt = t,
                     !.steps[k].progress = 100]
  IN Seq2(Outcome(j, "executing",
            <<[type |-> "step:completed", step |-> name,
               error |-> NoError]>>, 0, 0),
          startLoop(j, k + 1, t))

(***************************************************************************)
(* executeStep after the executor resolved, and the rest of the loop body  *)
(* of start() that follows it.                                             *)
(***************************************************************************)
stepSucceeded(i, k, result, t) ==
  LET name == i.steps[k].name
      res == [n \in (DOMAIN i.results) \cup {name} |->
                IF n = name THEN result ELSE i.results[n]]
      j == [i EXCEPT !.results = res,
                     !.steps[k].status = "completed",
                     !.steps[k].completedAt = t,
                     !.steps[k].progress = 100]
      done == Outcome(j, "executing",
                <<[type |-> "step:completed", step |-> name,
                   error |-> NoError]>>, 0, 0)
  IN IF j.steps[k].status = "failed"
     THEN Seq2(done, startCatch(j, <<"Step", name, "failed:">>
                                     \o j.steps[k].error, t))
     ELSE Seq2(done, startLoop(j, k + 1, t))

\* a failed step that is entered once more instead of ending the run
stepFailed_retry(i, k, msg, t) ==
  LET name == i.steps[k].name
      j == [i EXCEPT !.steps[k].status = "failed",
                     !.steps[k].completedAt = t,
                     !.steps[k].error = msg]
  IN Seq2(Outcome(j, "executing",
            <<[type |-> "step:failed", step |-> name, error |-> msg]>>, 0, 0),
          Outcome(executeStepEnter(j, k, t), "executing", <<>>, 0, 0))

(***************************************************************************)
(* catch block of executeStep, which rethrows into the catch of start().   *)
(***************************************************************************)
stepFailed(i, k, msg, t) ==
  LET name == i.steps[k].name
      j == [i EXCEPT !.steps[k].status = "failed",
                     !.steps[k].completedAt = t,
                     !.steps[k].error = msg]
  IN Seq2(Outcome(j, "executing",
            <<[type |-> "step:failed", step |-> name, error |-> msg]>>, 0, 0),
          startCatch(j, msg, t))

\* cancel() that leaves a run alone once it has a terminal status
cancel_guarded(i, t) ==
  IF i.status \in TerminalStatus
  THEN i
  ELSE rollback([i EXCEPT !.cancelled = TRUE, !.status = "cancelled",
                          !.completedAt = t])

(***************************************************************************)
(* PipelineInstance.cancel.                                                *)
(***************************************************************************)
cancel(i, t) ==
  rollback([i EXCEPT !.cancelled = TRUE, !.status = "cancelled",
                     !.completedAt = t])

(***************************************************************************)
(* The progress listener that executeStep registers on the executor.       *)
(***************************************************************************)
onProgress(i, k, p) ==
  [i EXCEPT !.steps[k].progress = p.percentage,
            !.steps[k].itemsProcessed = p.itemsProcessed,
            !.steps[k].totalItems = p.totalItems]

(***************************************************************************)
(* PipelineManager.startPipeline: the admission test.                      *)
(***************************************************************************)
runningPipelines ==
  Cardinality({p \in pipelines : instances[p].status = "running"})

\* the admission test off by one
limitReached_offByOne == runningPipelines > maxConcurrentPipelines

limitReached == runningPipelines >= maxConcurrentPipelines

(***************************************************************************)
(* PipelineManager.cleanup: the runs the sweep deletes at time t.          *)
(***************************************************************************)
\* the sweep without the test that completedAt is set
stale_noNullCheck(t) ==
  {p \in pipelines : instances[p].completedAt < t - CleanupMaxAgeMs}

stale(t) ==
  {p \in pipelines : instances[p].completedAt # Null
                     /\ instances[p].completedAt < t - CleanupMaxAgeMs}

Created == DOMAIN instances

\* a lookup that also finds the runs the sweep has deleted
registered_everCreated(id) == id \in DOMAIN instances

(***************************************************************************)
(* this.pipelines.get(pipelineId) of getPipelineStatus and cancelPipeline: *)
(* whether the lookup finds a run.                                         *)
(***************************************************************************)
registered(id) == id \in pipelines

(***************************************************************************)
(* PipelineManager.getPipelineStatus: the projection of a registered run.  *)
(***************************************************************************)
getPipelineStatus(id) ==
  [id |-> id,
   status |-> instances[id].status,
   currentStep |-> instances[id].currentStep,
   steps |-> instances[id].steps,
   startedAt |-> instances[id].startedAt,
   completedAt |-> instances[id].completedAt,
   error |-> instances[id].error,
   results |-> instances[id].results,
   config |-> instances[id].config]

(***************************************************************************)
(* PipelineManager.getAllPipelines: the summaries of the registered runs.  *)
(***************************************************************************)
getAllPipelines ==
  [id \in pipelines |->
     [id |-> id,
      status |-> instances[id].status,
      currentStep |-> instances[id].currentStep,
      startedAt |-> instances[id].startedAt,
      completedAt |-> instances[id].completedAt,
      config |-> instances[id].config]]

(***************************************************************************)
(* The status code of the route of an operation: the handlers answer 200   *)
(* on success, 500 when startPipeline throws and 404 when                  *)
(* getPipelineStatus or cancelPipeline throws.                             *)
(***************************************************************************)
httpStatus(op, ok) ==
  IF ok THEN 200 ELSE IF op = "start" THEN 500 ELSE 404

(***************************************************************************)
(* pipelineManager.runStep(stepId, config), as the contract notes describe *)
(* it: a step that is running is not launched again and the call fails;   *)
(* any other step is launched in the background and reported running.      *)
(***************************************************************************)
runStep(stepId) ==
  IF globalSteps[stepId] = "running"
  THEN [threw |-> TRUE, steps |-> globalSteps]
  ELSE [threw |-> FALSE, steps |-> [globalSteps EXCEPT ![stepId] = "running"]]

(***************************************************************************)
(* The answer of POST /api/pipeline/step/:stepId/run to a valid stepId:    *)
(* 200 with the step, or the catch block's 500 when runStep throws.        *)
(***************************************************************************)
stepRouteStatus(threw) == IF threw THEN 500 ELSE 200

(***************************************************************************)
(* The SSE broadcaster of the server.  sseConnections maps a key (a run    *)
(* id, or GlobalKey for the key 'global') to a set of responses;           *)
(* responses[c] is what has been written to response c, whether a write to *)
(* it throws, and whether it has been ended.                               *)
(***************************************************************************)
GlobalKey == 0

NoSnapshot == [id |-> 0]

NewResponse(key, msgs) ==
  [key |-> key, received |-> msgs, writable |-> TRUE, ended |-> FALSE,
   closed |-> FALSE]

\* the type field the handlers of the manager's events give to a message
sseType(type) ==
  CASE type = "step:completed" -> "step_completed"
    [] type = "step:failed" -> "step_failed"
    [] OTHER -> type

\* the message a handler of the manager's events builds from event e of r
sseMessage(r, e) ==
  [type |-> sseType(e.type), pipelineId |-> r, step |-> e.step,
   error |-> e.error, status |-> NoSnapshot]

\* a forEach that gives up at a connection whose write throws
writeAll_abortsOnFailure(S, key, msg) ==
  IF key \in DOMAIN S.sseConnections /\ S.sseConnections[key] # {}
  THEN LET set == S.sseConnections[key]
           failing == {c \in set : ~S.responses[c].writable}
       IN IF failing # {}
          THEN [S EXCEPT !.sseConnections[key] = set \ failing]
          ELSE [S EXCEPT !.responses =
                  [c \in DOMAIN S.responses |->
                     IF c \in set
                     THEN [S.responses[c] EXCEPT
                             !.received = Append(@, msg)]
                     ELSE S.responses[c]]]
  ELSE S

(***************************************************************************)
(* One forEach of broadcastSSE over the set of a key: write the message to *)
(* every connection, delete from the set those whose write throws.         *)
(***************************************************************************)
writeAll(S, key, msg) ==
  IF key \in DOMAIN S.sseConnections /\ S.sseConnections[key] # {}
  THEN LET set == S.sseConnections[key]
           failing == {c \in set : ~S.responses[c].writable}
       IN [sseConnections |->
             [S.sseConnections EXCEPT ![key] = set \ failing],
           responses |->
             [c \in DOMAIN S.responses |->
                IF c \in set \ failing
                THEN [S.responses[c] EXCEPT !.received = Append(@, msg)]
                ELSE S.responses[c]]]
  ELSE S

(***************************************************************************)
(* broadcastSSE(pipelineId, data): the run's set, then the global set with *)
(* the message tagged with the run id.                                     *)
(***************************************************************************)
broadcastSSE(S, pipelineId, data) ==
  writeAll(writeAll(S, pipelineId, data), GlobalKey,
           [data EXCEPT !.pipelineId = pipelineId])

\* the events of one segment of run r, broadcast in the order emitted
RECURSIVE broadcastEvents(_, _, _)
broadcastEvents(S, r, events) ==
  IF events = <<>>
  THEN S
  ELSE broadcastEvents(broadcastSSE(S, r, sseMessage(r, Head(events))), r,
                       Tail(events))

\* the first writes of the per-run stream without the snapshot
initialMessages_noSnapshot(id) ==
  <<[type |-> "connected", pipelineId |-> id, step |-> "", error |-> NoError,
     status |-> NoSnapshot]>>

(***************************************************************************)
(* The first writes of GET /api/pipeline/:id/stream: the confirmation,     *)
(* then the snapshot of the run, or an error message when                  *)
(* getPipelineStatus throws.                                               *)
(***************************************************************************)
initialMessages(id) ==
  <<[type |-> "connected", pipelineId |-> id, step |-> "", error |-> NoError,
     status |-> NoSnapshot],
    IF registered(id)
    THEN [type |-> "status", pipelineId |-> id, step |-> "",
          error |-> NoError, status |-> getPipelineStatus(id)]
    ELSE [type |-> "error", pipelineId |-> id, step |-> "",
          error |-> <<"not", "found">>, status |-> NoSnapshot]>>

\* the first writes of GET /api/pipeline/stream/global
initialGlobalMessages(statsOk) ==
  <<[type |-> "connected", pipelineId |-> GlobalKey, step |-> "",
     error |-> NoError, status |-> NoSnapshot]>>
  \o (IF statsOk
      THEN <<[type |-> "global_stats", pipelineId |-> GlobalKey, step |-> "",
              error |-> NoError, status |-> NoSnapshot]>>
      ELSE <<>>)

\* sseConnections after a response was added to the set of a key
addConnection(key, c) ==
  IF key \in DOMAIN sseConnections
  THEN [sseConnections EXCEPT ![key] = @ \cup {c}]
  ELSE sseConnections @@ (key :> {c})

\* a 'close' handler that leaves the response in its set
removeConnection_noop(key, c) == sseConnections

\* sseConnections after the 'close' or 'error' handler of a request ran
removeConnection(key, c) ==
  IF key \in DOMAIN sseConnections
  THEN IF sseConnections[key] \ {c} = {}
       THEN [k \in DOMAIN sseConnections \ {key} |-> sseConnections[k]]
       ELSE [sseConnections EXCEPT ![key] = @ \ {c}]
  ELSE sseConnections

(***************************************************************************)
(* Apply the outcome of a segment of run r.                                *)
(***************************************************************************)
Apply(r, o) ==
  /\ instances' = [instances EXCEPT ![r] = o.inst]
  /\ pc' = [pc EXCEPT ![r] = o.pc]
  /\ emitted' = [emitted EXCEPT ![r] = @ \o o.events]
  /\ ghost' = [ghost EXCEPT
       ![r].completedAtWrites = @ + o.writes,
       ![r].rollbacks = @ + o.rollbacks]
  /\ LET S == broadcastEvents([sseConnections |-> sseConnections,
                               responses |-> responses], r, o.events)
     IN /\ sseConnections' = S.sseConnections
        /\ responses' = S.responses
  /\ closeTimers' = IF \E n \in 1..Len(o.events) :
                          o.events[n].type \in {"completed", "failed"}
                    THEN closeTimers \cup {r}
                    ELSE closeTimers
  /\ UNCHANGED <<nextRes, globalSteps>>

(***************************************************************************)
(* Actions.                                                                *)
(***************************************************************************)
\* POST /api/pipeline/start -> PipelineManager.startPipeline(config)
StartPipeline ==
  \E config \in Configs :
    /\ budget.starts > 0
    /\ budget' = [budget EXCEPT !.starts = @ - 1]
    /\ IF limitReached
       THEN /\ lastCall' = [op |-> "start", id |-> nextId, ok |-> FALSE,
                            error |-> "limit", status |-> "",
                            http |-> httpStatus("start", FALSE)]
            /\ UNCHANGED <<pipelines, instances, pc, nextId, now, emitted,
                           ghost, sseVars, globalSteps>>
       ELSE /\ instances' = instances @@
                              (nextId :> NewPipelineInstance(nextId, config, now))
            /\ pipelines' = pipelines \cup {nextId}
            /\ pc' = pc @@ (nextId :> "scheduled")
            /\ emitted' = emitted @@ (nextId :> <<>>)
            /\ ghost' = ghost @@ (nextId :> NewGhost)
            /\ nextId' = nextId + 1
            /\ lastCall' = [op |-> "start", id |-> nextId, ok |-> TRUE,
                            error |-> "", status |-> "running",
                            http |-> httpStatus("start", TRUE)]
            /\ UNCHANGED <<now, sseVars, globalSteps>>

\* the setImmediate callback of startPipeline: pipeline.start()
BeginRun(r) ==
  /\ pc[r] = "scheduled"
  /\ Apply(r, startEnter(instances[r], now))
  /\ UNCHANGED <<pipelines, nextId, now, budget, lastCall>>

\* the executor reports progress
ExecutorProgress(r) ==
  \E p \in ProgressReports :
    /\ pc[r] = "executing"
    /\ budget.progress > 0 /\ budget.events > 0
    /\ budget' = [budget EXCEPT !.progress = @ - 1, !.events = @ - 1]
    /\ LET k == instances[r].currentStep
       IN Apply(r, Outcome(onProgress(instances[r], k, p), "executing",
                  <<[type |-> "progress", step |-> instances[r].steps[k].name,
                     error |-> NoError]>>, 0, 0))
    /\ UNCHANGED <<pipelines, nextId, now, lastCall>>

\* the import resolved and the executor's promise resolves with a result
ExecutorResolves(r) ==
  \E result \in ExecutorResults :
    /\ pc[r] = "executing"
    /\ budget.resolves > 0 /\ budget.events > 0
    /\ budget' = [budget EXCEPT !.resolves = @ - 1, !.events = @ - 1]
    /\ Apply(r, stepSucceeded(instances[r], instances[r].currentStep,
                              result, now))
    /\ UNCHANGED <<pipelines, nextId, now, lastCall>>

\* the import, the construction of the executor or the executor's promise
\* rejects
ExecutorRejects(r) ==
  \E msg \in ErrorMessages \cup ImportErrors :
    /\ pc[r] = "executing"
    /\ budget.fails > 0 /\ budget.events > 0
    /\ budget' = [budget EXCEPT !.fails = @ - 1, !.events = @ - 1]
    /\ Apply(r, stepFailed(instances[r], instances[r].currentStep, msg, now))
    /\ UNCHANGED <<pipelines, nextId, now, lastCall>>

\* a cancelPipeline that also drops the run from the registry
CancelPipeline_unregisters(id) ==
  /\ budget.cancels > 0 /\ budget.events > 0
  /\ budget' = [budget EXCEPT !.cancels = @ - 1, !.events = @ - 1]
  /\ IF registered(id)
     THEN /\ instances' = [instances EXCEPT ![id] = cancel(@, now)]
          /\ pipelines' = pipelines \ {id}
          /\ ghost' = [ghost EXCEPT ![id].completedAtWrites = @ + 1,
                                    ![id].cancelCalls = @ + 1,
                                    ![id].rollbacks = @ + 1]
          /\ lastCall' = [op |-> "cancel", id |-> id, ok |-> TRUE,
                          error |-> "", status |-> instances'[id].status,
                          http |-> httpStatus("cancel", TRUE)]
     ELSE /\ lastCall' = [op |-> "cancel", id |-> id, ok |-> FALSE,
                          error |-> "not found", status |-> "",
                          http |-> httpStatus("cancel", FALSE)]
          /\ UNCHANGED <<instances, ghost, pipelines>>
  /\ UNCHANGED <<pc, nextId, now, emitted, sseVars, globalSteps>>

\* DELETE /api/pipeline/:id -> PipelineManager.cancelPipeline(id)
CancelPipeline(id) ==
  /\ budget.cancels > 0 /\ budget.events > 0
  /\ budget' = [budget EXCEPT !.cancels = @ - 1, !.events = @ - 1]
  /\ IF registered(id)
     THEN /\ instances' = [instances EXCEPT ![id] = cancel(@, now)]
          /\ ghost' = [ghost EXCEPT ![id].completedAtWrites = @ + 1,
                                    ![id].cancelCalls = @ + 1,
                                    ![id].rollbacks = @ + 1,
                                    ![id].cancelledIn =
                                       IF @ = 0 /\ pc[id] = "executing"
                                       THEN instances[id].currentStep
                                       ELSE @]
          /\ lastCall' = [op |-> "cancel", id |-> id, ok |-> TRUE,
                          error |-> "", status |-> instances'[id].status,
                          http |-> httpStatus("cancel", TRUE)]
     ELSE /\ lastCall' = [op |-> "cancel", id |-> id, ok |-> FALSE,
                          error |-> "not found", status |-> "",
                          http |-> httpStatus("cancel", FALSE)]
          /\ UNCHANGED <<instances, ghost>>
  /\ UNCHANGED <<pipelines, pc, nextId, now, emitted, sseVars, globalSteps>>

\* GET /api/pipeline/:id -> PipelineManager.getPipelineStatus(id)
GetPipelineStatus(id) ==
  /\ budget.gets > 0
  /\ budget' = [budget EXCEPT !.gets = @ - 1]
  /\ IF registered(id)
     THEN lastCall' = [op |-> "get", id |-> id, ok |-> TRUE, error |-> "",
                       status |-> getPipelineStatus(id).status,
                       http |-> httpStatus("get", TRUE)]
     ELSE lastCall' = [op |-> "get", id |-> id, ok |-> FALSE,
                       error |-> "not found", status |-> "",
                       http |-> httpStatus("get", FALSE)]
  /\ UNCHANGED <<pipelines, instances, pc, nextId, now, emitted, ghost,
                 sseVars, globalSteps>>

\* GET /api/pipeline/:id/stream
Subscribe(id) ==
  /\ budget.subs > 0 /\ budget.events > 0
  /\ budget' = [budget EXCEPT !.subs = @ - 1, !.events = @ - 1]
  /\ sseConnections' = addConnection(id, nextRes)
  /\ responses' = responses @@ (nextRes :> NewResponse(id, initialMessages(id)))
  /\ nextRes' = nextRes + 1
  /\ UNCHANGED <<pipelines, instances, pc, nextId, now, lastCall, emitted,
                 ghost, closeTimers, globalSteps>>

\* GET /api/pipeline/stream/global
SubscribeGlobal ==
  \E statsOk \in BOOLEAN :
    /\ budget.subs > 0 /\ budget.events > 0
    /\ budget' = [budget EXCEPT !.subs = @ - 1, !.events = @ - 1]
    /\ sseConnections' = addConnection(GlobalKey, nextRes)
    /\ responses' = responses @@
                      (nextRes :> NewResponse(GlobalKey,
                                              initialGlobalMessages(statsOk)))
    /\ nextRes' = nextRes + 1
    /\ UNCHANGED <<pipelines, instances, pc, nextId, now, lastCall, emitted,
                   ghost, closeTimers, globalSteps>>

\* the transport of a response fails: from now on a write to it throws
WriteBreaks(c) ==
  /\ responses[c].writable /\ ~responses[c].closed /\ ~responses[c].ended
  /\ budget.drops > 0 /\ budget.events > 0
  /\ budget' = [budget EXCEPT !.drops = @ - 1, !.events = @ - 1]
  /\ responses' = [responses EXCEPT ![c].writable = FALSE]
  /\ UNCHANGED <<pipelines, instances, pc, nextId, now, lastCall, emitted,
                 ghost, sseConnections, closeTimers, nextRes, globalSteps>>

\* req.on('close') / req.on('error') of either stream route
ClientCloses(c) ==
  /\ ~responses[c].closed
  /\ budget.drops > 0 /\ budget.events > 0
  /\ budget' = [budget EXCEPT !.drops = @ - 1, !.events = @ - 1]
  /\ sseConnections' = removeConnection(responses[c].key, c)
  /\ responses' = [responses EXCEPT ![c].closed = TRUE,
                                    ![c].writable = FALSE]
  /\ UNCHANGED <<pipelines, instances, pc, nextId, now, lastCall, emitted,
                 ghost, closeTimers, nextRes, globalSteps>>

\* a timer callback that ends the responses and forgets to delete the set
CloseTimerFires_keepsSet(r) ==
  /\ r \in closeTimers
  /\ closeTimers' = closeTimers \ {r}
  /\ IF r \in DOMAIN sseConnections
     THEN responses' =
            [c \in DOMAIN responses |->
               IF c \in sseConnections[r] /\ responses[c].writable
               THEN [responses[c] EXCEPT
                       !.received =
                          Append(@, [type |-> "connection_closing",
                                     pipelineId |-> r, step |-> "",
                                     error |-> NoError,
                                     status |-> NoSnapshot]),
                       !.ended = TRUE]
               ELSE responses[c]]
     ELSE UNCHANGED responses
  /\ UNCHANGED <<pipelines, instances, pc, nextId, now, budget, lastCall,
                 emitted, ghost, nextRes, sseConnections, globalSteps>>

\* the setTimeout callback of the pipeline:completed / pipeline:failed
\* handlers, five seconds after the event
CloseTimerFires(r) ==
  /\ r \in closeTimers
  /\ closeTimers' = closeTimers \ {r}
  /\ IF r \in DOMAIN sseConnections
     THEN /\ responses' =
               [c \in DOMAIN responses |->
                  IF c \in sseConnections[r] /\ responses[c].writable
                  THEN [responses[c] EXCEPT
                          !.received =
                             Append(@, [type |-> "connection_closing",
                                        pipelineId |-> r, step |-> "",
                                        error |-> NoError,
                                        status |-> NoSnapshot]),
                          !.ended = TRUE]
                  ELSE responses[c]]
          /\ sseConnections' =
               [k \in DOMAIN sseConnections \ {r} |-> sseConnections[k]]
     ELSE UNCHANGED <<sseConnections, responses>>
  /\ UNCHANGED <<pipelines, instances, pc, nextId, now, budget, lastCall,
                 emitted, ghost, nextRes, globalSteps>>

\* POST /api/pipeline/step/:stepId/run
RunStep(stepId) ==
  /\ budget.stepRuns > 0
  /\ budget' = [budget EXCEPT !.stepRuns = @ - 1]
  /\ IF stepId < 1 \/ stepId > NumSteps
     THEN /\ lastCall' = [op |-> "runStep", id |-> stepId, ok |-> FALSE,
                          error |-> "invalid stepId", status |-> "",
                          http |-> 400]
          /\ UNCHANGED globalSteps
     ELSE LET result == runStep(stepId)
          IN /\ globalSteps' = result.steps
             /\ lastCall' = [op |-> "runStep", id |-> stepId,
                             ok |-> ~result.threw,
                             error |-> IF result.threw THEN "thrown" ELSE "",
                             status |-> result.steps[stepId],
                             http |-> stepRouteStatus(result.threw)]
  /\ UNCHANGED <<pipelines, instances, pc, nextId, now, emitted, ghost,
                 sseVars>>

\* the execution a step launch left in the background ends
StepFinishes(k) ==
  \E outcome \in {"completed", "failed"} :
    /\ globalSteps[k] = "running"
    /\ budget.events > 0
    /\ budget' = [budget EXCEPT !.events = @ - 1]
    /\ globalSteps' = [globalSteps EXCEPT ![k] = outcome]
    /\ UNCHANGED <<pipelines, instances, pc, nextId, now, lastCall, emitted,
                   ghost, sseVars>>

\* the setInterval timer of the module: pipelineManager.cleanup()
Cleanup ==
  /\ budget.sweeps > 0
  /\ budget' = [budget EXCEPT !.sweeps = @ - 1]
  /\ now' = now + CleanupIntervalMs
  /\ pipelines' = pipelines \ stale(now')
  /\ UNCHANGED <<instances, pc, nextId, lastCall, emitted, ghost, sseVars, globalSteps>>

\* a millisecond passes
Tick ==
  /\ budget.ticks > 0
  /\ budget' = [budget EXCEPT !.ticks = @ - 1]
  /\ now' = now + 1
  /\ UNCHANGED <<pipelines, instances, pc, nextId, lastCall, emitted, ghost,
                 sseVars, globalSteps>>

\* requests and run segments; the clock stands still
Next ==
  \/ StartPipeline
  \/ \E r \in Created : BeginRun(r)
  \/ \E r \in Created : ExecutorProgress(r)
  \/ \E r \in Created : ExecutorResolves(r)
  \/ \E r \in Created : ExecutorRejects(r)
  \/ \E id \in 1..nextId : CancelPipeline(id)

\* the same with the clock running
NextClock == Next \/ Tick

InitState ==
  /\ pipelines = {}
  /\ instances = [r \in {} |-> NewPipelineInstance(0, "cfgA", 0)]
  /\ pc = [r \in {} |-> "scheduled"]
  /\ emitted = [r \in {} |-> <<>>]
  /\ ghost = [r \in {} |-> NewGhost]
  /\ nextId = 1
  /\ now = T0
  /\ lastCall = [op |-> "none", id |-> 0, ok |-> TRUE, error |-> "",
                 status |-> "", http |-> 0]
  /\ sseConnections = [k \in {} |-> {}]
  /\ responses = [c \in {} |-> NewResponse(0, <<>>)]
  /\ closeTimers = {}
  /\ nextRes = 1
  /\ globalSteps = [k \in 1..NumSteps |-> "pending"]

Budget(st, rs, cn, fl, pr, ev, tk, sw, gt, sb, dr, sr) ==
  [starts |-> st, resolves |-> rs, cancels |-> cn, fails |-> fl,
   progress |-> pr, events |-> ev, ticks |-> tk, sweeps |-> sw,
   gets |-> gt, subs |-> sb, drops |-> dr, stepRuns |-> sr]

\* one run in detail
Init ==
  /\ InitState
  /\ budget = Budget(RunStarts, RunResolves, RunCancels, RunFails,
                     RunProgress,
                     RunResolves + RunCancels + RunFails + RunProgress, 0, 0,
                     0, 0, 0, 0)

Spec == Init /\ [][Next]_vars

\* the registry under load: several start requests
InitRegistry ==
  /\ InitState
  /\ budget = Budget(MaxStarts, MaxEvents, MaxEvents, MaxEvents, MaxEvents,
                     MaxEvents, 0, 0, 0, 0, 0, 0)

SpecRegistry == InitRegistry /\ [][Next]_vars

\* one run with the clock running
InitClock ==
  /\ InitState
  /\ budget = Budget(ClockStarts, ClockEvents, ClockEvents, ClockEvents,
                     ClockEvents, ClockEvents, ClockTicks, 0, 0, 0, 0, 0)

SpecClock == InitClock /\ [][NextClock]_vars

\* requests, run segments, status queries and the periodic sweep
NextSweep ==
  \/ StartPipeline
  \/ \E r \in Created : BeginRun(r)
  \/ \E r \in Created : ExecutorRejects(r)
  \/ \E id \in 1..nextId : CancelPipeline(id)
  \/ \E id \in 1..nextId : GetPipelineStatus(id)
  \/ Cleanup

\* the registry over hours: runs end and the sweep deletes them
InitSweep ==
  /\ InitState
  /\ budget = Budget(SweepStarts, SweepEvents, SweepEvents, SweepEvents,
                     SweepEvents, SweepEvents, 0, SweepSweeps, SweepGets,
                     0, 0, 0)

SpecSweep == InitSweep /\ [][NextSweep]_vars

\* the step launches of the server
NextStep ==
  \/ \E stepId \in 0..(NumSteps + 1) : RunStep(stepId)
  \/ \E k \in 1..NumSteps : StepFinishes(k)

\* steps launched one by one through the step route
InitStep ==
  /\ InitState
  /\ budget = Budget(0, 0, 0, 0, 0, StepEvents, 0, 0, 0, 0, 0, StepRuns)

SpecStep == InitStep /\ [][NextStep]_vars

\* requests, run segments and the SSE streams of the server
NextSse ==
  \/ StartPipeline
  \/ \E r \in Created : BeginRun(r)
  \/ \E r \in Created : ExecutorResolves(r)
  \/ \E r \in Created : ExecutorRejects(r)
  \/ \E id \in 1..nextId : Subscribe(id)
  \/ SubscribeGlobal
  \/ \E c \in DOMAIN responses : WriteBreaks(c)
  \/ \E c \in DOMAIN responses : ClientCloses(c)
  \/ \E r \in Created : CloseTimerFires(r)

\* one run watched by SSE clients
InitSse ==
  /\ InitState
  /\ budget = Budget(SseStarts, SseEvents, SseEvents, SseEvents, SseEvents,
                     SseOps, 0, 0, 0, SseSubs, SseDrops, 0)

SpecSse == InitSse /\ [][NextSse]_vars

\* a run that may be cancelled, watched by clients that stay connected
NextSseCancel ==
  \/ StartPipeline
  \/ \E r \in Created : BeginRun(r)
  \/ \E r \in Created : ExecutorResolves(r)
  \/ \E r \in Created : ExecutorRejects(r)
  \/ \E id \in 1..nextId : CancelPipeline(id)
  \/ \E id \in 1..nextId : Subscribe(id)
  \/ \E r \in Created : CloseTimerFires(r)

\* the event loop runs every callback that is due: the setImmediate of a
\* start and the close timers
SpecSseLive ==
  /\ InitSse
  /\ [][NextSseCancel]_vars
  /\ WF_vars(\E r \in Created : BeginRun(r))
  /\ WF_vars(\E r \in Created : CloseTimerFires(r))

(***************************************************************************)
(* Shorthands of the properties.                                           *)
(***************************************************************************)
Running == {p \in pipelines : instances[p].status = "running"}

StatusEdges ==
  {<<"idle", "running">>, <<"running", "completed">>,
   <<"running", "failed">>, <<"running", "cancelled">>}

HasResult(r, k) == instances[r].steps[k].name \in DOMAIN instances[r].results

NoResults(r) == DOMAIN instances[r].results = {}

(***************************************************************************)
(* C1: a start request made while fewer than maxConcurrentPipelines        *)
(* registered runs are running succeeds and adds exactly one run to the    *)
(* registry, leaving the others as they are; made while that many or more  *)
(* are running, it fails with the limit error and changes neither the      *)
(* registry nor any run, and schedules nothing.                            *)
(***************************************************************************)
C1_Admission ==
  [][budget'.starts < budget.starts =>
       IF Cardinality(Running) < maxConcurrentPipelines
       THEN /\ lastCall'.op = "start" /\ lastCall'.ok
            /\ pipelines \subseteq pipelines'
            /\ Cardinality(pipelines' \ pipelines) = 1
            /\ pipelines' \ pipelines = {lastCall'.id}
            /\ DOMAIN instances' = DOMAIN instances \cup {lastCall'.id}
            /\ lastCall'.id \notin DOMAIN instances
            /\ \A p \in DOMAIN instances :
                  instances'[p] = instances[p] /\ pc'[p] = pc[p]
       ELSE /\ lastCall'.op = "start" /\ ~lastCall'.ok
            /\ lastCall'.error = "limit"
            /\ pipelines' = pipelines
            /\ instances' = instances
            /\ pc' = pc]_vars

C1_Witness ==
  /\ lastCall.op = "start" /\ ~lastCall.ok
  /\ Cardinality(Running) = maxConcurrentPipelines
  /\ pipelines = 1..maxConcurrentPipelines

(***************************************************************************)
(* C2: the number of registered runs whose status is running never exceeds *)
(* maxConcurrentPipelines.                                                 *)
(***************************************************************************)
C2_CeilingRespected == Cardinality(Running) <= maxConcurrentPipelines

(***************************************************************************)
(* C3: every change of a run's status is one of idle -> running,           *)
(* running -> completed, running -> failed, running -> cancelled; so a     *)
(* terminal status never changes.                                          *)
(***************************************************************************)
C3_StatusEdges ==
  [][\A r \in DOMAIN instances :
       instances'[r].status # instances[r].status =>
         <<instances[r].status, instances'[r].status>> \in StatusEdges]_vars

(***************************************************************************)
(* C4: completedAt of a run is written exactly when its status becomes     *)
(* terminal, and never a second time.                                      *)
(***************************************************************************)
C4_CompletedAtOnce ==
  [][\A r \in DOMAIN instances :
       /\ ghost'[r].completedAtWrites <= 1
       /\ (ghost'[r].completedAtWrites # ghost[r].completedAtWrites) <=>
            (/\ instances[r].status \notin TerminalStatus
             /\ instances'[r].status \in TerminalStatus)]_vars

(***************************************************************************)
(* C5: a step that has left pending follows a completed step: for every    *)
(* k, step k+1 is started only when step k is completed, and its startedAt *)
(* is not earlier than the completedAt of step k.                          *)
(***************************************************************************)
C5_StepOrder ==
  \A r \in DOMAIN instances : \A k \in 1..(NumSteps - 1) :
    LET a == instances[r].steps[k]
        b == instances[r].steps[k + 1]
    IN (b.status # "pending" \/ b.startedAt # Null) =>
         /\ a.status = "completed"
         /\ a.completedAt # Null
         /\ a.completedAt <= b.startedAt

C5_Witness ==
  \E r \in DOMAIN instances :
    /\ instances[r].steps[3].status = "running"
    /\ instances[r].steps[1].startedAt < instances[r].steps[1].completedAt
    /\ instances[r].steps[2].startedAt < instances[r].steps[3].startedAt

(***************************************************************************)
(* C6: results has an entry under a step's name only if that step is       *)
(* completed.                                                              *)
(***************************************************************************)
C6_ResultsOnlyCompleted ==
  \A r \in DOMAIN instances : \A k \in 1..NumSteps :
    HasResult(r, k) => instances[r].steps[k].status = "completed"

C6_Witness ==
  \E r \in DOMAIN instances :
    /\ HasResult(r, 1) /\ HasResult(r, 2)
    /\ instances[r].steps[3].status = "running"

(***************************************************************************)
(* C7: a run whose status is failed, or is cancelled after a call of       *)
(* cancel(), has an empty results map.                                     *)
(***************************************************************************)
C7_ResultsClearedOnAbort ==
  \A r \in DOMAIN instances :
    (\/ instances[r].status = "failed"
     \/ instances[r].status = "cancelled" /\ ghost[r].cancelCalls > 0)
      => NoResults(r)

(***************************************************************************)
(* C8: when the executor of step k fails, the run's status becomes failed  *)
(* and rollback runs in the same segment; from then on every step after k  *)
(* is pending and results is empty.                                        *)
(***************************************************************************)
C8_FailureStopsRun ==
  /\ [](\A r \in DOMAIN instances : \A k \in 1..NumSteps :
          instances[r].steps[k].status = "failed" =>
            /\ \A j \in (k + 1)..NumSteps :
                  instances[r].steps[j].status = "pending"
            /\ NoResults(r))
  /\ [][\A r \in DOMAIN instances : \A k \in 1..NumSteps :
          (/\ instances[r].steps[k].status # "failed"
           /\ instances'[r].steps[k].status = "failed") =>
            /\ instances'[r].status = "failed"
            /\ ghost'[r].rollbacks = ghost[r].rollbacks + 1]_vars

C8_Witness ==
  \E r \in DOMAIN instances :
    /\ instances[r].steps[1].status = "completed"
    /\ instances[r].steps[2].status = "failed"
    /\ instances[r].status = "failed"

(***************************************************************************)
(* C9: the error of a run that failed in step k contains the name of step  *)
(* k and every token of the message the executor raised, and so does the   *)
(* failed event.                                                           *)
(***************************************************************************)
C9_ErrorNamesStep ==
  \A r \in DOMAIN instances : \A k \in 1..NumSteps :
    (instances[r].steps[k].status = "failed" /\ instances[r].status = "failed")
      => LET s == instances[r].steps[k]
             ev == emitted[r][Len(emitted[r])]
         IN /\ Contains(instances[r].error, s.name)
            /\ \A n \in 1..Len(s.error) : Contains(instances[r].error, s.error[n])
            /\ ev.type = "failed"
            /\ Contains(ev.error, s.name)
            /\ \A n \in 1..Len(s.error) : Contains(ev.error, s.error[n])

(***************************************************************************)
(* C10: every call of cancel() on a registered run, the first as well as   *)
(* a repeated one, returns without an error and leaves the run cancelled.  *)
(***************************************************************************)
C10_CancelIdempotent ==
  [][\A r \in DOMAIN instances :
       ghost'[r].cancelCalls > ghost[r].cancelCalls =>
         /\ lastCall'.op = "cancel" /\ lastCall'.id = r /\ lastCall'.ok
         /\ lastCall'.status = "cancelled"
         /\ instances'[r].status = "cancelled"
         /\ instances'[r].cancelled
         /\ (instances[r].cancelled /\ instances[r].status = "cancelled") =>
              instances'[r] = [instances[r] EXCEPT !.completedAt = now,
                                                   !.results = EmptyResults]]_vars

C10_Witness ==
  \E r \in DOMAIN instances :
    /\ ghost[r].cancelCalls = 2
    /\ instances[r].status = "cancelled"
    /\ instances[r].steps[NumSteps].status = "completed"

(***************************************************************************)
(* C11: once cancel() has been called on a run, none of its pending steps  *)
(* is ever started; the call itself leaves every step, and the place where *)
(* the run is suspended, as they are, so a step in flight goes on.         *)
(***************************************************************************)
C11_CooperativeCancel ==
  [][\A r \in DOMAIN instances :
       /\ ghost[r].cancelCalls > 0 =>
            \A k \in 1..NumSteps :
              instances[r].steps[k].status = "pending" =>
                instances'[r].steps[k].status = "pending"
       /\ ghost'[r].cancelCalls > ghost[r].cancelCalls =>
            /\ instances'[r].steps = instances[r].steps
            /\ pc'[r] = pc[r]]_vars

C11_Witness ==
  \E r \in DOMAIN instances :
    /\ ghost[r].cancelledIn = 2
    /\ instances[r].steps[2].status = "completed"
    /\ instances[r].steps[3].status = "pending"
    /\ pc[r] = "done"

(***************************************************************************)
(* C12: a run on which cancel() was called while the executor of step 1    *)
(* was in flight is cancelled from the return of cancel() on, for good,    *)
(* and its rollback has run.                                               *)
(***************************************************************************)
C12_CancelMidStep ==
  \A r \in DOMAIN instances :
    ghost[r].cancelledIn = 1 =>
      instances[r].status = "cancelled" /\ ghost[r].rollbacks > 0

(***************************************************************************)
(* C13: when the executor of the fifth step succeeds, the run ends         *)
(* completed, with five entries in results and every step completed at     *)
(* progress 100.                                                           *)
(***************************************************************************)
C13_AllStepsSucceed ==
  [][\A r \in DOMAIN instances :
       (/\ instances[r].steps[NumSteps].status # "completed"
        /\ instances'[r].steps[NumSteps].status = "completed") =>
          /\ pc'[r] = "done"
          /\ instances'[r].status = "completed"
          /\ DOMAIN instances'[r].results = StepNames
          /\ \A k \in 1..NumSteps :
                /\ instances'[r].steps[k].status = "completed"
                /\ instances'[r].steps[k].progress = 100]_vars

(***************************************************************************)
(* C14: a sweep deletes from the registry exactly the runs whose           *)
(* completedAt is set and lies before the cutoff (the time of the sweep    *)
(* minus one hour); runs without completedAt and runs completed at or      *)
(* after the cutoff stay, and no run is modified.                          *)
(***************************************************************************)
C14_SweepExact ==
  [][budget'.sweeps < budget.sweeps =>
       /\ pipelines' \subseteq pipelines
       /\ pipelines \ pipelines' =
            {p \in pipelines :
               /\ instances[p].completedAt # Null
               /\ instances[p].completedAt < now' - CleanupMaxAgeMs}
       /\ instances' = instances
       /\ pc' = pc]_vars

C14_Witness ==
  /\ budget.sweeps = 0
  /\ \E r \in Created \ pipelines :
       /\ instances[r].completedAt # Null
       /\ instances[r].completedAt < now - CleanupMaxAgeMs

(***************************************************************************)
(* C15: getPipelineStatus and cancelPipeline with an id that is not in the *)
(* registry fail with a not-found error, answered with status 404, and     *)
(* leave the registry and every run as they were.                          *)
(***************************************************************************)
C15_UnknownIdNotFound ==
  [][((budget'.gets < budget.gets \/ budget'.cancels < budget.cancels)
      /\ lastCall'.id \notin pipelines) =>
       /\ lastCall'.ok = FALSE
       /\ lastCall'.error = "not found"
       /\ lastCall'.http = 404
       /\ pipelines' = pipelines
       /\ instances' = instances
       /\ pc' = pc
       /\ emitted' = emitted]_vars

C15_Witness ==
  /\ lastCall.op = "get"
  /\ lastCall.error = "not found"
  /\ lastCall.id \in Created \ pipelines
  /\ instances[lastCall.id].status = "cancelled"

(***************************************************************************)
(* C16: when startPipeline returns, the new run is in the registry with    *)
(* status idle, not started, all five steps pending and no event emitted;  *)
(* its loop is entered only by the callback scheduled for later.           *)
(***************************************************************************)
C16_FireAndForget ==
  [][nextId' > nextId =>
       /\ pipelines' = pipelines \cup {nextId}
       /\ instances'[nextId].status = "idle"
       /\ instances'[nextId].startedAt = Null
       /\ instances'[nextId].currentStep = 0
       /\ \A k \in 1..NumSteps :
            instances'[nextId].steps[k].status = "pending"
       /\ emitted'[nextId] = <<>>
       /\ pc'[nextId] = "scheduled"]_vars

C16_Witness ==
  /\ lastCall.op = "start" /\ lastCall.ok
  /\ lastCall.id \in pipelines
  /\ instances[lastCall.id].status = "idle"
  /\ pc[lastCall.id] = "scheduled"
  /\ \E r \in pipelines : instances[r].status = "running"

(***************************************************************************)
(* C17: the failure of a step never leaves start() as a rejection: in the  *)
(* segment in which a step becomes failed, start() returns normally with   *)
(* the run failed, its error set, and a failed event emitted last.         *)
(***************************************************************************)
C17_FailureCaptured ==
  [][\A r \in DOMAIN instances :
       /\ pc'[r] # "rejected"
       /\ (\E k \in 1..NumSteps :
             /\ instances[r].steps[k].status # "failed"
             /\ instances'[r].steps[k].status = "failed") =>
            /\ pc'[r] = "done"
            /\ instances'[r].status = "failed"
            /\ instances'[r].error # NoError
            /\ Len(emitted'[r]) = Len(emitted[r]) + 2
            /\ emitted'[r][Len(emitted'[r])].type = "failed"
            /\ emitted'[r][Len(emitted'[r])].error = instances'[r].error]_vars

C17_Witness ==
  \E r \in DOMAIN instances :
    /\ instances[r].steps[2].status = "failed"
    /\ instances[r].status = "failed"
    /\ pc[r] = "done"
    /\ emitted[r][Len(emitted[r])].type = "failed"

sseMessages(r, events) ==
  [n \in 1..Len(events) |-> sseMessage(r, events[n])]

\* the responses in the set of a key
subscribers(key) ==
  IF key \in DOMAIN sseConnections THEN sseConnections[key] ELSE {}

(***************************************************************************)
(* C19: when a segment of run r emits events, every connection in the set  *)
(* of r and every connection in the global set whose write succeeds gets   *)
(* the messages of these events, in order and tagged with r, and stays in  *)
(* its set; a connection whose write throws is deleted from its set and    *)
(* gets nothing; no other connection is touched.                           *)
(***************************************************************************)
C19_BroadcastReachesAll ==
  [][\A r \in DOMAIN emitted :
       Len(emitted'[r]) > Len(emitted[r]) =>
         LET new == SubSeq(emitted'[r], Len(emitted[r]) + 1,
                           Len(emitted'[r]))
             targets == subscribers(r) \cup subscribers(GlobalKey)
         IN /\ \A c \in targets :
                 IF responses[c].writable
                 THEN /\ responses'[c].received =
                           responses[c].received \o sseMessages(r, new)
                      /\ c \in sseConnections'[responses[c].key]
                 ELSE /\ responses'[c].received = responses[c].received
                      /\ c \notin sseConnections'[responses[c].key]
            /\ \A c \in DOMAIN responses \ targets :
                 responses'[c] = responses[c]
            /\ \A k \in DOMAIN sseConnections :
                 /\ k \in DOMAIN sseConnections'
                 /\ sseConnections'[k] \subseteq sseConnections[k]]_vars

C19_Witness ==
  \E c, g \in DOMAIN responses :
    /\ responses[c].key \in Created /\ responses[g].key = GlobalKey
    /\ ~responses[c].writable /\ ~responses[c].closed
    /\ c \notin subscribers(responses[c].key)
    /\ Len(responses[c].received) = 2
    /\ g \in subscribers(GlobalKey)
    /\ Len(responses[g].received) >= 3
    /\ responses[g].received[Len(responses[g].received) - 1].type =
         "step_failed"
    /\ responses[g].received[Len(responses[g].received)].type = "failed"
    /\ responses[g].received[Len(responses[g].received)].pipelineId =
         responses[c].key

(***************************************************************************)
(* C20: a subscription to the stream of a run puts the new connection in   *)
(* the set of that run and writes to it the confirmation and then the      *)
(* snapshot of the run as it is at that moment (an error message when the  *)
(* id is not registered); on every per-run connection these two come       *)
(* first, before every broadcast message.                                  *)
(***************************************************************************)
C20_SubscribeSnapshotFirst ==
  [][/\ (nextRes' > nextRes /\ responses'[nextRes].key # GlobalKey) =>
          LET id == responses'[nextRes].key
              got == responses'[nextRes].received
          IN /\ nextRes \in sseConnections'[id]
             /\ Len(got) = 2
             /\ got[1].type = "connected" /\ got[1].pipelineId = id
             /\ IF id \in pipelines
                THEN /\ got[2].type = "status"
                     /\ got[2].status = getPipelineStatus(id)
                ELSE got[2].type = "error"
     /\ \A c \in DOMAIN responses :
          responses[c].key # GlobalKey =>
            /\ Len(responses[c].received) >= 2
            /\ SubSeq(responses'[c].received, 1, 2) =
                 SubSeq(responses[c].received, 1, 2)
            /\ \A n \in 3..Len(responses'[c].received) :
                 responses'[c].received[n].type
                   \notin {"connected", "status", "error"}]_vars

C20_Witness ==
  \E c \in DOMAIN responses :
    /\ responses[c].key \in pipelines
    /\ Len(responses[c].received) = 3
    /\ responses[c].received[1].type = "connected"
    /\ responses[c].received[2].type = "status"
    /\ responses[c].received[2].status.status = "running"
    /\ responses[c].received[3].type = "step_completed"

\* the last message written to response c
lastReceived(c) == responses[c].received[Len(responses[c].received)]

(***************************************************************************)
(* C21: when a run emits completed or failed, every connection in its set  *)
(* whose write succeeds gets that event, stays open and subscribed, and    *)
(* the closing of the set is scheduled; when the grace period is over,     *)
(* each of the connections of the set gets connection_closing, is ended,   *)
(* and the set is deleted.  The connections of the global set are never    *)
(* ended and the timer leaves them and their set alone.                    *)
(***************************************************************************)
C21_TerminalThenClosing ==
  [][/\ \A r \in DOMAIN emitted :
          (/\ Len(emitted'[r]) > Len(emitted[r])
           /\ emitted'[r][Len(emitted'[r])].type \in {"completed", "failed"})
          => /\ r \in closeTimers'
             /\ \A c \in subscribers(r) :
                  responses[c].writable =>
                    /\ c \in sseConnections'[r]
                    /\ ~responses'[c].ended
                    /\ responses'[c].received[Len(responses'[c].received)]
                         = sseMessage(r, emitted'[r][Len(emitted'[r])])
     /\ \A r \in closeTimers \ closeTimers' :
          /\ r \notin DOMAIN sseConnections'
          /\ \A c \in subscribers(r) :
               responses[c].writable =>
                 /\ responses'[c].ended
                 /\ Len(responses'[c].received) =
                      Len(responses[c].received) + 1
                 /\ responses'[c].received[Len(responses'[c].received)].type
                      = "connection_closing"
          /\ \A g \in subscribers(GlobalKey) :
               /\ responses'[g] = responses[g]
               /\ g \in sseConnections'[GlobalKey]
     /\ \A g \in DOMAIN responses' :
          responses'[g].key = GlobalKey => ~responses'[g].ended]_vars

C21_Witness ==
  \E c, g \in DOMAIN responses :
    /\ responses[c].key \in Created /\ responses[g].key = GlobalKey
    /\ responses[c].ended
    /\ Len(responses[c].received) = 5
    /\ responses[c].received[4].type = "failed"
    /\ lastReceived(c).type = "connection_closing"
    /\ responses[c].key \notin DOMAIN sseConnections
    /\ g \in subscribers(GlobalKey)
    /\ lastReceived(g).type = "failed"

(***************************************************************************)
(* C22: a launch of a step that has status running is answered with 409    *)
(* Conflict and starts no second execution: the steps stay as they are.    *)
(***************************************************************************)
C22_RepeatedLaunchConflict ==
  [][(/\ budget'.stepRuns < budget.stepRuns
      /\ lastCall'.id \in 1..NumSteps
      /\ globalSteps[lastCall'.id] = "running") =>
       /\ lastCall'.http = 409
       /\ globalSteps' = globalSteps]_vars

(***************************************************************************)
(* C23: a segment of start() that ends the run because the loop found the  *)
(* cancel flag sets status cancelled and runs no rollback: results keeps   *)
(* what it held, with the result the finished step has just stored; of the *)
(* two ways a run is cancelled, only a call of cancel() runs rollback.     *)
(***************************************************************************)
C23_LoopCancelNoRollback ==
  [][\A r \in DOMAIN instances :
       (/\ pc[r] # "done" /\ pc'[r] = "done"
        /\ instances'[r].status = "cancelled") =>
         /\ instances[r].cancelled
         /\ ghost'[r].rollbacks = ghost[r].rollbacks
         /\ ghost'[r].cancelCalls = ghost[r].cancelCalls
         /\ instances'[r].completedAt = instances[r].completedAt
         /\ \A n \in DOMAIN instances[r].results :
              /\ n \in DOMAIN instances'[r].results
              /\ instances'[r].results[n] = instances[r].results[n]
         /\ DOMAIN instances'[r].results \ DOMAIN instances[r].results
              \subseteq
              IF pc[r] = "executing"
              THEN {instances[r].steps[instances[r].currentStep].name}
              ELSE {}]_vars

C23_Witness ==
  \E r \in DOMAIN instances :
    /\ pc[r] = "done"
    /\ instances[r].status = "cancelled"
    /\ ghost[r].cancelCalls = 1 /\ ghost[r].rollbacks = 1
    /\ ghost[r].cancelledIn = 2
    /\ DOMAIN instances[r].results = {"dependencies"}

StepEdges ==
  {<<"pending", "running">>, <<"running", "completed">>,
   <<"running", "failed">>}

\* the positions in the event log of run r where step k ended
stepEndings(r, k) ==
  {n \in 1..Len(emitted[r]) :
     /\ emitted[r][n].type \in {"step:completed", "step:failed"}
     /\ emitted[r][n].step = PipelineSteps[k].name}

(***************************************************************************)
(* C24: the status of a step changes only from pending to running and from *)
(* running to completed or failed; a completed or failed step keeps its    *)
(* status, and no step ends more than once: the run emits at most one      *)
(* step:completed or step:failed per step, and the step has that status.   *)
(***************************************************************************)
C24_NoStepRetry ==
  /\ [](\A r \in DOMAIN instances : \A k \in 1..NumSteps :
          /\ Cardinality(stepEndings(r, k)) <= 1
          /\ \A n \in stepEndings(r, k) :
               emitted[r][n].type =
                 IF instances[r].steps[k].status = "completed"
                 THEN "step:completed" ELSE "step:failed")
  /\ [][\A r \in DOMAIN instances : \A k \in 1..NumSteps :
          instances'[r].steps[k].status # instances[r].steps[k].status =>
            <<instances[r].steps[k].status, instances'[r].steps[k].status>>
              \in StepEdges]_vars

C24_Witness ==
  \E r \in DOMAIN instances :
    /\ instances[r].steps[1].status = "completed"
    /\ instances[r].steps[2].status = "failed"
    /\ instances[r].steps[3].status = "pending"
    /\ ghost[r].cancelCalls > 0
    /\ pc[r] = "done"

(***************************************************************************)
(* C25: the set of registered run ids changes only by a start, which adds  *)
(* the new id, and by a sweep, which removes ids; cancelPipeline,          *)
(* getPipelineStatus and the segments of a run leave it as it is           *)
(* (getAllPipelines is a projection and writes nothing), and a registered  *)
(* failed or cancelled run is reported by getPipelineStatus and            *)
(* getAllPipelines with its status, error and steps.                       *)
(***************************************************************************)
C25_OnlySweepUnregisters ==
  /\ [][pipelines' # pipelines =>
          \/ /\ budget'.starts < budget.starts
             /\ pipelines' = pipelines \cup {nextId}
          \/ /\ budget'.sweeps < budget.sweeps
             /\ pipelines' \subseteq pipelines]_vars
  /\ [](\A r \in pipelines :
          /\ r \in DOMAIN getAllPipelines
          /\ getAllPipelines[r].status = instances[r].status
          /\ getPipelineStatus(r).status = instances[r].status
          /\ getPipelineStatus(r).steps = instances[r].steps
          /\ instances[r].status = "failed" =>
               /\ getPipelineStatus(r).error # NoError
               /\ \E k \in 1..NumSteps :
                    getPipelineStatus(r).steps[k].status = "failed")

C25_Witness ==
  /\ lastCall.op = "get" /\ lastCall.ok
  /\ lastCall.status = "failed"
  /\ lastCall.id \in pipelines
  /\ budget.sweeps < SweepSweeps

(***************************************************************************)
(* C26: a connection whose 'close' or 'error' handler has run is in no     *)
(* set, the set of its run and the global set included, and nothing is     *)
(* written to it from then on.                                             *)
(***************************************************************************)
C26_ClosedIsUnsubscribed ==
  /\ [](\A c \in DOMAIN responses :
          responses[c].closed =>
            \A k \in DOMAIN sseConnections : c \notin sseConnections[k])
  /\ [][\A c \in DOMAIN responses :
          responses[c].closed =>
            /\ responses'[c].closed
            /\ responses'[c].received = responses[c].received]_vars

C26_Witness ==
  \E c, d \in DOMAIN responses :
    /\ responses[c].closed /\ ~responses[d].closed
    /\ responses[c].key = responses[d].key
    /\ responses[c].key \in Created
    /\ Len(responses[c].received) = 2
    /\ Len(responses[d].received) = 4
    /\ lastReceived(d).type = "failed"

\* the runs suspended in an await of executeStep
InFlight == {r \in Created : pc[r] = "executing"}

(***************************************************************************)
(* C27: at no time do more than maxConcurrentPipelines runs have a call of *)
(* a step executor in flight.                                              *)
(***************************************************************************)
C27_InFlightCeiling == Cardinality(InFlight) <= maxConcurrentPipelines

(***************************************************************************)
(* C28: whenever a connection is subscribed to a registered run that has a *)
(* terminal status, the broadcaster eventually ends that connection.       *)
(***************************************************************************)
C28_TerminalClosesSubscribers ==
  \A c \in 1..SseSubs :
    [](( /\ c \in DOMAIN responses
         /\ responses[c].key \in pipelines
         /\ c \in subscribers(responses[c].key)
         /\ instances[responses[c].key].status \in TerminalStatus )
       => <>(c \in DOMAIN responses /\ responses[c].ended))

(***************************************************************************)
(* C29: after cancel() has been called on a run, the run emits no          *)
(* step:completed, step:failed, completed or failed event.                 *)
(***************************************************************************)
C29_SilentAfterCancel ==
  [][\A r \in DOMAIN instances :
       ghost[r].cancelCalls > 0 =>
         \A n \in (Len(emitted[r]) + 1)..Len(emitted'[r]) :
           emitted'[r][n].type \notin
             {"step:completed", "step:failed", "completed", "failed"}]_vars

(***************************************************************************)
(* C30: the status in the value startPipeline returns is the status of the *)
(* stored run at that moment, the one getPipelineStatus reports.           *)
(***************************************************************************)
C30_ReturnedStatusIsStored ==
  [][nextId' > nextId =>
       /\ lastCall'.op = "start" /\ lastCall'.ok
       /\ lastCall'.status = instances'[lastCall'.id].status]_vars

TypeOK ==
  /\ pipelines \subseteq Created
  /\ \A r \in Created :
       /\ instances[r].status \in {"idle", "running"} \cup TerminalStatus
       /\ pc[r] \in {"scheduled", "executing", "done"}
====
